---- MODULE Spec2Model ----
(***************************************************************************)
(* Model of wireviz/wv_gv_html.py: the GraphViz HTML label builder.        *)
(*                                                                         *)
(* Python values are tagged records:                                       *)
(*   None            [tag |-> "None"]                                      *)
(*   a str           [tag |-> "str",  s |-> ...]                           *)
(*   a list          [tag |-> "list", items |-> <<...>>]                   *)
(*   Td / Tr / Table [tag |-> ..., contents |-> value, attribs |-> ...]    *)
(* Text that the code searches character by character (a table id, a line  *)
(* of the graph description) is a sequence of one-character strings.       *)
(***************************************************************************)
EXTENDS Integers, Sequences, FiniteSets, TLC

VARIABLES
    lines,      \* nested_table: the argument `lines`
    connectors, \* harness.connectors: name -> Connector object
    cable,      \* the Cable object
    options,    \* harness.options
    dot_body,   \* dot.body: the lines of the graph description
    tweak,      \* the Tweak object given to apply_dot_tweaks
    log,        \* what print() has written
    call,       \* the last call made: function and arguments
    ret,        \* what the last call returned, or the exception it raised
    rendered    \* history: the connectors gv_node_component has been called on

vars == <<lines, connectors, cable, options, dot_body, tweak, log, call, ret, rendered>>

(***************************************************************************)
(* Python values                                                           *)
(***************************************************************************)
None == [tag |-> "None"]

Str(s) == [tag |-> "str", s |-> s]

IntV(n) == [tag |-> "int", n |-> n]

\* An f-string or a str method applied to values: the format and its arguments.
Fmt(f, args) == [tag |-> "fmt", f |-> f, args |-> args]

\* Python truthiness of an optional value: None, "" and 0 are false.
Truthy(v) == v # None /\ v # Str("") /\ v # IntV(0)

IsStr(v) == v.tag \in {"str", "fmt"}

List(items) == [tag |-> "list", items |-> items]

\* The state before any call has returned.
NoCall == [tag |-> "nocall"]

Returned(v) == [tag |-> "return", val |-> v]

Raised(e) == [tag |-> "raise", exc |-> e]

\* `x in seq` for a character in a text.
Contains(text, ch) == \E i \in DOMAIN text : text[i] = ch

(***************************************************************************)
(* wv_table_util: Td, Tr, Table hold `contents` and an `attribs` dict.     *)
(***************************************************************************)
NoAttribs == [k \in {} |-> ""]

Td(contents, attribs) == [tag |-> "Td", contents |-> contents, attribs |-> attribs]

Tr(contents) == [tag |-> "Tr", contents |-> contents, attribs |-> NoAttribs]

Table(contents, attribs) == [tag |-> "Table", contents |-> contents, attribs |-> attribs]

\* dict.get(key, default)
AttribGet(attribs, key, default) ==
    IF key \in DOMAIN attribs THEN attribs[key] ELSE default

\* Tag.update_attribs(**kwargs): sets the given keys, keeps the others.
update_attribs(tag, kwargs) ==
    [tag EXCEPT !.attribs =
        [k \in (DOMAIN tag.attribs) \cup (DOMAIN kwargs) |->
            IF k \in DOMAIN kwargs THEN kwargs[k] ELSE tag.attribs[k]]]

\* The children a tag renders: the elements of a list, or its single content.
Children(tag) ==
    IF tag.contents.tag = "list" THEN tag.contents.items ELSE <<tag.contents>>

(***************************************************************************)
(* make_list_of_cells, nested_table                                        *)
(***************************************************************************)
make_list_of_cells(inp) ==
    IF inp.tag = "list"
    THEN [i \in DOMAIN inp.items |->
            IF inp.items[i].tag = "Td" THEN inp.items[i]
            ELSE Td(inp.items[i], NoAttribs)]
    ELSE IF inp = None THEN <<>>
    ELSE IF inp.tag = "Td" THEN <<inp>>
    ELSE <<Td(inp, NoAttribs)>>

\* Table(..., border=0, cellspacing=0, cellpadding=3, cellborder=1)
InnerTableAttribs ==
    [border |-> 0, cellspacing |-> 0, cellpadding |-> 3, cellborder |-> 1]

\* Table(rows, border=0, cellspacing=0, cellpadding=0)
OuterTableAttribs == [border |-> 0, cellspacing |-> 0, cellpadding |-> 0]

ContentsNotNone(item) == item.contents # None

\* Mutant: the forced-wrapping flag "!" is ignored.
inner_table_ignoring_flag(cells) ==
    IF Len(cells) = 1 /\ cells[1].contents.tag = "Table"
    THEN cells[1].contents
    ELSE Table(Tr(List(cells)), InnerTableAttribs)

\* Lines 126-139: the table placed in the row's cell.
inner_table(cells) ==
    IF /\ Len(cells) = 1
       /\ cells[1].contents.tag = "Table"
       /\ ~ Contains(AttribGet(cells[1].contents.attribs, "id", <<>>), "!")
    THEN cells[1].contents
    ELSE Table(Tr(List(cells)), InnerTableAttribs)

\* Mutant: a list whose cells are all None still yields a row.
row_of_keeping_empty(lst) ==
    IF Len(lst) = 0 THEN <<>>
    ELSE <<Tr(Td(inner_table(SelectSeq(lst, ContentsNotNone)), NoAttribs))>>

\* Lines 120-140: one iteration of the loop, the rows it appends (none or one).
row_of(lst) ==
    IF Len(lst) = 0 THEN <<>>
    ELSE LET cells == SelectSeq(lst, ContentsNotNone) IN
         IF Len(cells) = 0 THEN <<>>
         ELSE <<Tr(Td(inner_table(cells), NoAttribs))>>

RECURSIVE rows_of(_)
rows_of(cell_lists) ==
    IF Len(cell_lists) = 0 THEN <<>>
    ELSE row_of(Head(cell_lists)) \o rows_of(Tail(cell_lists))

\* Mutant: no dummy row, an empty <table> is returned.
nested_table_without_dummy(lns) ==
    Table(List(rows_of([i \in DOMAIN lns |-> make_list_of_cells(lns[i])])),
          OuterTableAttribs)

nested_table(lns) ==
    LET cell_lists == [i \in DOMAIN lns |-> make_list_of_cells(lns[i])]
        rows == rows_of(cell_lists)
    IN  IF Len(rows) = 0
        THEN Table(Tr(Td(Str(""), NoAttribs)), OuterTableAttribs)
        ELSE Table(List(rows), OuterTableAttribs)

(***************************************************************************)
(* Helpers imported from wv_colors and wv_helper                           *)
(***************************************************************************)
\* translate_color(color, mode): nothing for no color, else the color in `mode`.
translate_color(color, mode) ==
    IF Truthy(color) THEN Fmt("translate_color", <<color, Str(mode)>>) ELSE None

\* get_color_hex(color, pad): one hex code per color of the wire; with pad, one
\* color is shown three times and two colors as first, second, first.
get_color_hex(color, pad) ==
    LET hex == [k \in DOMAIN color.codes |-> Fmt("hex", <<Str(color.codes[k])>>)]
    IN  IF pad /\ Len(hex) = 1 THEN hex \o hex \o hex
        ELSE IF pad /\ Len(hex) = 2 THEN hex \o <<hex[1]>>
        ELSE hex

\* remove_links(inp): a str without its <a ...> and </a> tags.
remove_links(inp) == IF IsStr(inp) THEN Fmt("remove_links", <<inp>>) ELSE inp

\* pn_info_string(header, name, number): None when name and number are both unset.
pn_info_string(header, name, number) ==
    IF Truthy(name) \/ Truthy(number)
    THEN Fmt("pn_info_string", <<Str(header), name, number>>)
    ELSE None

(***************************************************************************)
(* Value formatting helpers                                                *)
(***************************************************************************)
HEADER_PN == "P/N"
HEADER_MPN == "MPN"
HEADER_SPN == "SPN"

html_line_breaks(inp) ==
    IF IsStr(inp) THEN Fmt("replace_newline_by_br", <<remove_links(inp)>>) ELSE inp

colored_cell(contents, bgcolor) ==
    Td(contents, [bgcolor |-> translate_color(bgcolor, "HEX")])

part_number_str_list(component) ==
    LET cell_contents ==
            << pn_info_string(HEADER_PN, None, component.pn),
               pn_info_string(HEADER_MPN, component.manufacturer, component.mpn),
               pn_info_string(HEADER_SPN, component.supplier, component.spn) >>
    IN  IF \E k \in DOMAIN cell_contents : Truthy(cell_contents[k])
        THEN List([k \in DOMAIN cell_contents |-> html_line_breaks(cell_contents[k])])
        ELSE None

colorbar_cell(color) ==
    IF Truthy(color)
    THEN Td(Str(""), [bgcolor |-> translate_color(color, "HEX"), width |-> 4])
    ELSE None

\* An unset width or height of an image is 0.
html_size_attr_dict(image) ==
    IF image = None THEN NoAttribs
    ELSE [k \in {a \in {"width", "height", "fixedsize"} :
                    \/ a = "width" /\ image.width # 0
                    \/ a = "height" /\ image.height # 0
                    \/ a = "fixedsize" /\ image.fixedsize} |->
            CASE k = "width" -> image.width
              [] k = "height" -> image.height
              [] OTHER -> "true"]

Img(scale, src) == [tag |-> "Img", contents |-> None, attribs |-> [scale |-> scale, src |-> src]]

\* The pair (image_cell, caption_cell). Keyword arguments of a tag that are not
\* HTML attributes (flat, delete_if_empty) are kept with its attribs.
image_and_caption_cells(component) ==
    IF component.image = None THEN <<None, None>>
    ELSE
      LET image == component.image
          image_tag == Img(image.scale, image.src)
          image_cell_inner == Td(image_tag, [flat |-> TRUE])
          image_cell ==
              IF image.fixedsize
              THEN Td(Table(Tr(update_attribs(image_cell_inner, html_size_attr_dict(image))),
                            [border |-> 0, cellspacing |-> 0, cellborder |-> 0,
                             id |-> <<"!">>]),
                      NoAttribs)
              ELSE image_cell_inner
          caption_cell ==
              IF Truthy(image.caption)
              THEN Td(Fmt("{}", <<html_line_breaks(image.caption)>>),
                      [balign |-> "left", sides |-> Str("BLR")])
              ELSE None
      IN  << update_attribs(image_cell,
                 [balign |-> "left",
                  bgcolor |-> translate_color(image.bgcolor, "HEX"),
                  sides |-> IF Truthy(image.caption) THEN Str("TLR") ELSE None]),
             caption_cell >>

(***************************************************************************)
(* Pin table and loops of a connector                                      *)
(***************************************************************************)
\* A GraphViz port: "p<n>l" / "p<n>r" of a pin, "w<n>" of a wire, or none.
PinPort(n, side) == [kind |-> "p", n |-> n, side |-> side]
WirePort(n) == [kind |-> "w", n |-> n, side |-> ""]
NoPort == [kind |-> "", n |-> 0, side |-> ""]

\* A node path "<node>[:<port>]:<dir>" of an edge.
Path(node, port, dir) == [tag |-> "path", node |-> node, port |-> port, dir |-> dir]

\* Connector.should_show_pin(pin)
should_show_pin(component, pinname) ==
    ~ component.hide_disconnected_pins \/ pinname \in component.visible_pins

gv_pin_row(pin_index, pin_name, pin_label, pin_color, connector) ==
    LET cell_pin_left == Td(pin_name, [port |-> PinPort(pin_index + 1, "l")])
        cell_pin_label == Td(pin_label, [delete_if_empty |-> TRUE])
        cell_pin_right == Td(pin_name, [port |-> PinPort(pin_index + 1, "r")])
    IN  Tr(List(<< IF connector.ports_left THEN cell_pin_left ELSE None,
                   cell_pin_label,
                   IF connector.ports_right THEN cell_pin_right ELSE None >>))

\* zip_longest: the k-th element, None past the end.
ItemOrNone(seq, k) == IF k \in DOMAIN seq THEN seq[k] ELSE None

Max(a, b) == IF a >= b THEN a ELSE b

RECURSIVE pin_rows_from(_, _)
pin_rows_from(component, k) ==
    LET n == Max(Len(component.pins), Max(Len(component.pinlabels), Len(component.pincolors)))
    IN  IF k > n THEN <<>>
        ELSE (IF should_show_pin(component, ItemOrNone(component.pins, k))
              THEN <<gv_pin_row(k - 1, ItemOrNone(component.pins, k),
                                ItemOrNone(component.pinlabels, k),
                                ItemOrNone(component.pincolors, k), component)>>
              ELSE <<>>)
             \o pin_rows_from(component, k + 1)

gv_pin_table(component) ==
    Table(List(pin_rows_from(component, 1)),
          [border |-> 0, cellspacing |-> 0, cellpadding |-> 3, cellborder |-> 1])

\* Mutant: the right side is preferred when both sides are exposed.
gv_connector_loops_right_first(connector) ==
    IF ~ (connector.ports_left \/ connector.ports_right)
    THEN Raised("No side for loops")
    ELSE LET loop_side == IF connector.ports_right THEN "r" ELSE "l"
             loop_dir == IF connector.ports_right THEN "e" ELSE "w"
         IN  Returned(List([k \in DOMAIN connector.loops |->
                 << Path(connector.name, PinPort(connector.loops[k][1], loop_side), loop_dir),
                    Path(connector.name, PinPort(connector.loops[k][2], loop_side), loop_dir) >>]))

gv_connector_loops(connector) ==
    IF ~ (connector.ports_left \/ connector.ports_right)
    THEN Raised("No side for loops")
    ELSE LET loop_side == IF connector.ports_left THEN "l" ELSE "r"
             loop_dir == IF connector.ports_left THEN "w" ELSE "e"
         IN  Returned(List([k \in DOMAIN connector.loops |->
                 << Path(connector.name, PinPort(connector.loops[k][1], loop_side), loop_dir),
                    Path(connector.name, PinPort(connector.loops[k][2], loop_side), loop_dir) >>]))

(***************************************************************************)
(* Conductor table of a cable, wire edges                                  *)
(***************************************************************************)
Black == Str("#000000")

\* sep.join(parts)
Join(sep, parts) == Fmt("join", <<Str(sep), List(parts)>>)

Reverse(seq) == [k \in DOMAIN seq |-> seq[Len(seq) + 1 - k]]

IsShield(wire) == wire.cls = "ShieldClass"

gv_wire_cell(wire, padding) ==
    LET color_list ==
            IF Truthy(wire.color)
            THEN <<Black>> \o get_color_hex(wire.color, padding) \o <<Black>>
            ELSE <<Black>>
        reversed == Reverse(color_list)
        wire_inner_rows ==
            [j \in DOMAIN reversed |->
                Tr(Td(Str(""),
                      [colspan |-> 3, cellpadding |-> 0, height |-> 2, border |-> 0,
                       bgcolor |-> IF reversed[j] # Str("") THEN reversed[j]
                                   ELSE Str("BK")]))]
        wire_inner_table ==
            Table(List(wire_inner_rows), [cellspacing |-> 0, cellborder |-> 0, border |-> 0])
    IN  Td(wire_inner_table,
           [colspan |-> 3, border |-> 0, cellspacing |-> 0,
            port |-> WirePort(wire.index + 1), height |-> 2 * Len(color_list)])

\* f"{parent}:{id}{label}" of an endpoint, the label with its colon when set.
endpoint_str(ep) ==
    Fmt("{}:{}{}", <<Str(ep.parent), ep.id,
                     IF Truthy(ep.label) THEN Fmt(":{}", <<ep.label>>) ELSE Str("")>>)

Spacer == Tr(Td(Str("&nbsp;"), NoAttribs))

\* Lines 208-230: the row above the wire.
row_above(cbl, harness_options, wire) ==
    LET wireinfo ==
            (IF cbl.show_wirenumbers /\ ~ IsShield(wire)
             THEN <<Fmt("str", <<wire.id>>)>> ELSE <<>>)
            \o <<translate_color(wire.color, harness_options.color_mode), wire.label>>
        NotNone(wi) == wi # None
        Via(conn) == conn.via.id = wire.id
        HasFrom(conn) == Via(conn) /\ conn.from_ # None
        HasTo(conn) == Via(conn) /\ conn.to # None
        from_conns == SelectSeq(cbl.connections, HasFrom)
        to_conns == SelectSeq(cbl.connections, HasTo)
        ins == [k \in DOMAIN from_conns |-> endpoint_str(from_conns[k].from_)]
        outs == [k \in DOMAIN to_conns |-> endpoint_str(to_conns[k].to)]
    IN  Tr(List(<< Td(Join(", ", ins), NoAttribs),
                   Td(Join(":", SelectSeq(wireinfo, NotNone)), NoAttribs),
                   Td(Join(", ", outs), NoAttribs) >>))

\* Mutant: the spacer is inserted before every shield.
RECURSIVE conductor_rows_break_each(_, _, _, _)
conductor_rows_break_each(cbl, harness_options, k, inserted_break_inbetween) ==
    IF k > Len(cbl.wire_objects) THEN <<>>
    ELSE LET wire == cbl.wire_objects[k]
         IN  (IF IsShield(wire) THEN <<Spacer>> ELSE <<>>)
             \o <<row_above(cbl, harness_options, wire),
                  Tr(gv_wire_cell(wire, harness_options.pad))>>
             \o conductor_rows_break_each(cbl, harness_options, k + 1,
                                          inserted_break_inbetween)

\* Lines 201-233: the rows the loop appends from wire k on.
RECURSIVE conductor_rows(_, _, _, _)
conductor_rows(cbl, harness_options, k, inserted_break_inbetween) ==
    IF k > Len(cbl.wire_objects) THEN <<>>
    ELSE LET wire == cbl.wire_objects[k]
             break == IsShield(wire) /\ ~ inserted_break_inbetween
         IN  (IF break THEN <<Spacer>> ELSE <<>>)
             \o <<row_above(cbl, harness_options, wire),
                  Tr(gv_wire_cell(wire, harness_options.pad))>>
             \o conductor_rows(cbl, harness_options, k + 1,
                               inserted_break_inbetween \/ break)

gv_conductor_table(cbl, harness_options) ==
    Table(List(<<Spacer>> \o conductor_rows(cbl, harness_options, 1, FALSE) \o <<Spacer>>),
          [border |-> 0, cellspacing |-> 0, cellborder |-> 0])

\* The five values gv_edge_wire returns.
EdgeWire(color, code_left_1, code_left_2, code_right_1, code_right_2) ==
    [tag |-> "tuple", color |-> color,
     code_left_1 |-> code_left_1, code_left_2 |-> code_left_2,
     code_right_1 |-> code_right_1, code_right_2 |-> code_right_2]

\* harness.connectors and harness.options are the harness; line 345 reads
\* connection.from_.parent, which raises when from_ is None.
gv_edge_wire(harness_connectors, harness_options, connection) ==
    LET via == connection.via
        color ==
            IF Truthy(via.color)
            THEN Join(":", <<Black>> \o get_color_hex(via.color, harness_options.pad)
                                     \o <<Black>>)
            ELSE IF Truthy(via.color)
                 THEN Join(":", <<Black, get_color_hex(via.color, FALSE)[1], Black>>)
                 ELSE Black
        from_port ==
            IF harness_connectors[connection.from_.parent].style # "simple"
            THEN PinPort(connection.from_.index + 1, "r") ELSE NoPort
        to_port ==
            IF harness_connectors[connection.from_.parent].style # "simple"
            THEN PinPort(connection.to.index + 1, "l") ELSE NoPort
        code_left_1 ==
            IF connection.from_ # None
            THEN Path(connection.from_.parent, from_port, "e") ELSE None
        code_left_2 ==
            IF connection.from_ # None
            THEN Path(via.parent, WirePort(via.index + 1), "w") ELSE None
    IN  IF connection.to # None
        THEN IF connection.from_ = None
             THEN Raised("AttributeError")
             ELSE Returned(EdgeWire(color, code_left_1, code_left_2,
                                    Path(via.parent, WirePort(via.index + 1), "e"),
                                    Path(connection.to.parent, to_port, "w")))
        ELSE Returned(EdgeWire(color, code_left_1, code_left_2, None, None))

(***************************************************************************)
(* gv_node_component                                                       *)
(***************************************************************************)
IsConnector(component) == component.kind = "Connector"
IsCable(component) == component.kind = "Cable"

\* Mutant: the left side is switched on whenever it is off.
default_side_whenever_left_off(component) ==
    IF IsConnector(component) /\ ~ component.ports_left
    THEN [component EXCEPT !.ports_left = TRUE]
    ELSE component

\* Lines 31-33: the component as gv_node_component leaves it.
default_side(component) ==
    IF IsConnector(component) /\ ~ (component.ports_left \/ component.ports_right)
    THEN [component EXCEPT !.ports_left = TRUE]
    ELSE component

\* Lines 36-87: the eight lines of the node.
node_lines(component, harness_options) ==
    LET line_name ==
            IF component.show_name
            THEN colored_cell(Fmt("{}", <<remove_links(Str(component.name))>>),
                              component.bgcolor_title)
            ELSE None
        line_pn == part_number_str_list(component)
        line_info ==
            IF IsConnector(component)
            THEN List(<< html_line_breaks(component.type),
                         html_line_breaks(component.subtype),
                         IF component.show_pincount
                         THEN Fmt("{}-pin", <<IntV(component.pincount)>>) ELSE None,
                         translate_color(component.color, harness_options.color_mode),
                         colorbar_cell(component.color) >>)
            ELSE List(<< html_line_breaks(component.type),
                         IF component.show_wirecount
                         THEN Fmt("{}x", <<IntV(component.wirecount)>>) ELSE None,
                         IF Truthy(component.gauge)
                         THEN Fmt("{}", <<component.gauge_str>>) ELSE None,
                         IF component.shield THEN Str("+ S") ELSE None,
                         IF component.length > 0
                         THEN Fmt("{} {}", <<IntV(component.length), component.length_unit>>)
                         ELSE None,
                         translate_color(component.color, harness_options.color_mode),
                         colorbar_cell(component.color) >>)
        image_cells == image_and_caption_cells(component)
        line_additional_component_table == None
        line_notes == List(<<html_line_breaks(component.notes)>>)
        line_ports ==
            IF IsConnector(component)
            THEN IF component.style # "simple" THEN gv_pin_table(component) ELSE None
            ELSE gv_conductor_table(component, harness_options)
    IN  << line_name, line_pn, line_info, line_ports, image_cells[1], image_cells[2],
           line_additional_component_table, line_notes >>

\* Lines 89-98, `component` being the component after lines 31-33. tbl_bgcolor is
\* assigned in no branch when neither the component nor the options give a
\* color: reading it at line 97 raises UnboundLocalError.
gv_node_component(component, harness_options) ==
    LET tbl == nested_table(node_lines(component, harness_options))
    IN  IF Truthy(component.bgcolor)
        THEN Returned(update_attribs(tbl,
                 [bgcolor |-> translate_color(component.bgcolor, "HEX")]))
        ELSE IF IsConnector(component) /\ Truthy(harness_options.bgcolor_connector)
        THEN Returned(update_attribs(tbl,
                 [bgcolor |-> translate_color(harness_options.bgcolor_connector, "HEX")]))
        ELSE IF IsCable(component) /\ Truthy(harness_options.bgcolor_cable)
        THEN Returned(update_attribs(tbl,
                 [bgcolor |-> translate_color(harness_options.bgcolor_cable, "HEX")]))
        ELSE Raised("UnboundLocalError")


(***************************************************************************)
(* apply_dot_tweaks. A str of the graph description or of the tweak is     *)
(* Text(chars), chars a sequence of characters; a dict is the sequence of  *)
(* its items in iteration order.                                           *)
(***************************************************************************)
Text(chars) == [tag |-> "text", chars |-> chars]

Item(k, v) == [k |-> k, v |-> v]

Dict(items) == [tag |-> "dict", items |-> items]

QUOTE == "\""
TAB == "\t"
NEWLINE == "\n"

\* isinstance(value, expect) for the types apply_dot_tweaks expects.
IsInstance(value, expect) ==
    CASE expect = "dict" -> value.tag = "dict"
      [] expect = "str" -> value.tag = "text"
      [] expect = "str or None" -> value.tag = "text" \/ value = None

\* One typecheck() call: the name it reports, the value and the expected type.
Check(name, value, expect) == [name |-> name, value |-> value, expect |-> expect]

RECURSIVE Flatten(_)
Flatten(seqs) == IF Len(seqs) = 0 THEN <<>> ELSE Head(seqs) \o Flatten(Tail(seqs))

\* Lines 461-467: the typecheck() calls on tweak.override, in the order made. The
\* items of a value that is no dict are never reached: its own check raises.
override_checks(override) ==
    <<Check(Fmt("tweak.override", <<>>), override, "dict")>>
    \o (IF override.tag # "dict" THEN <<>>
        ELSE Flatten([i \in DOMAIN override.items |->
                LET k == override.items[i].k
                    d == override.items[i].v
                IN  << Check(Fmt("tweak.override.{k} key", <<k>>), k, "str"),
                       Check(Fmt("tweak.override.{k} value", <<k>>), d, "dict") >>
                    \o (IF d.tag # "dict" THEN <<>>
                        ELSE Flatten([j \in DOMAIN d.items |->
                                << Check(Fmt("tweak.override.{k}.{a} key",
                                             <<k, d.items[j].k>>), d.items[j].k, "str"),
                                   Check(Fmt("tweak.override.{k}.{a} value",
                                             <<k, d.items[j].k>>), d.items[j].v,
                                         "str or None") >>]))]))

\* Lines 511-516: the typecheck() calls on tweak.append.
append_checks(append) ==
    IF append.tag = "list"
    THEN [i \in DOMAIN append.items |->
            Check(Fmt("tweak.append[{i}]", <<IntV(i)>>), append.items[i], "str")]
    ELSE <<Check(Fmt("tweak.append", <<>>), append, "str")>>

Fails(check) == ~ IsInstance(check.value, check.expect)

\* The exception of the first failing typecheck(), or None when all pass.
typecheck(checks) ==
    LET failing == SelectSeq(checks, Fails)
    IN  IF Len(failing) = 0 THEN None
        ELSE Raised([name |-> failing[1].name, expected |-> failing[1].expect,
                     value |-> failing[1].value])

\* ---- the regular expressions, on sequences of characters ----
LitAt(s, p, lit) ==
    /\ p >= 1 /\ p + Len(lit) - 1 <= Len(s)
    /\ \A k \in DOMAIN lit : s[p + k - 1] = lit[k]

Min(S) == CHOOSE x \in S : \A y \in S : x <= y

\* The first position from p on whose character is in (not in) `stop`; past the
\* end when there is none.
FirstIn(s, p, stop) == Min({k \in p..Len(s) : s[k] \in stop} \cup {Len(s) + 1})
FirstNotIn(s, p, skip) == Min({k \in p..Len(s) : s[k] \notin skip} \cup {Len(s) + 1})

\* \]$ : the position of a "]" that ends the text or stands before its final
\* newline; 0 when there is none.
EndBracket(s) ==
    IF Len(s) >= 1 /\ s[Len(s)] = "]" THEN Len(s)
    ELSE IF Len(s) >= 2 /\ s[Len(s)] = NEWLINE /\ s[Len(s) - 1] = "]" THEN Len(s) - 1
    ELSE 0

\* ` \[.*\]$` from position p, with re.S.
DeclarationAt(s, p) == LitAt(s, p, <<" ", "[">>) /\ EndBracket(s) >= p + 2

\* Line 474-475: group 2 of ^\t*(")?((?(1)[^"]|[^ "])+)(?(1)") \[.*\]$ , the
\* keyword of a declaration line, or None when the line does not match.
keyword_of(s) ==
    LET start == FirstNotIn(s, 1, {TAB})
    IN  IF start <= Len(s) /\ s[start] = QUOTE
        THEN LET close == FirstIn(s, start + 1, {QUOTE})
             IN  IF close > start + 1 /\ close <= Len(s) /\ DeclarationAt(s, close + 1)
                 THEN Text(SubSeq(s, start + 1, close - 1))
                 ELSE None
        ELSE LET end == FirstIn(s, start, {" ", QUOTE})
             IN  IF end > start
                 THEN IF DeclarationAt(s, end) THEN Text(SubSeq(s, start, end - 1))
                      ELSE None
                 \* no character but tabs before " [": the last tab is the keyword
                 ELSE IF start > 1 /\ DeclarationAt(s, start) THEN Text(<<TAB>>)
                 ELSE None

\* ("[^"]*"|[^] ]*) from position v: the position after the value.
ValueEnd(s, v) ==
    IF v <= Len(s) /\ s[v] = QUOTE /\ FirstIn(s, v + 1, {QUOTE}) <= Len(s)
    THEN FirstIn(s, v + 1, {QUOTE}) + 1
    ELSE FirstIn(s, v, {"]", " "})

\* ( +)?attr=("[^"]*"|[^] ]*)(?(1)| *) at position p: the position after the
\* match, 0 when there is no match at p. Spaces before the attribute are part
\* of the match; spaces after it are only when none stood before.
RemovalMatch(s, attr, p) ==
    LET name == attr \o <<"=">>
        q == FirstNotIn(s, p, {" "})
    IN  IF q > p /\ LitAt(s, q, name) THEN ValueEnd(s, q + Len(name))
        ELSE IF LitAt(s, p, name)
        THEN FirstNotIn(s, ValueEnd(s, p + Len(name)), {" "})
        ELSE 0

\* attr=("[^"]*"|[^] ]*) at position p.
ReplacementMatch(s, attr, p) ==
    LET name == attr \o <<"=">>
    IN  IF LitAt(s, p, name) THEN ValueEnd(s, p + Len(name)) ELSE 0

Subn(out, n) == [out |-> out, n |-> n]

\* The first position from p on where the removal (replacement) pattern
\* matches; 0 when it matches nowhere.
FirstRemovalMatch(s, attr, p) ==
    Min({k \in p..Len(s) : RemovalMatch(s, attr, k) > 0} \cup {Len(s) + 1}) % (Len(s) + 1)

FirstReplacementMatch(s, attr, p) ==
    Min({k \in p..Len(s) : ReplacementMatch(s, attr, k) > 0} \cup {Len(s) + 1}) % (Len(s) + 1)

\* Mutant: re.subn with count=1, only the first occurrence is removed.
subn_remove_first_only(s, attr, p) ==
    LET m == FirstRemovalMatch(s, attr, p)
    IN  IF m = 0 THEN Subn(SubSeq(s, p, Len(s)), 0)
        ELSE Subn(SubSeq(s, p, m - 1) \o SubSeq(s, RemovalMatch(s, attr, m), Len(s)), 1)

\* Lines 481-483: re.subn(<removal pattern>, "", entry) from position p on: the
\* text without the matches, found from left to right, and their number.
RECURSIVE subn_remove(_, _, _)
subn_remove(s, attr, p) ==
    LET m == FirstRemovalMatch(s, attr, p)
    IN  IF m = 0 THEN Subn(SubSeq(s, p, Len(s)), 0)
        ELSE LET rest == subn_remove(s, attr, RemovalMatch(s, attr, m))
             IN  Subn(SubSeq(s, p, m - 1) \o rest.out, rest.n + 1)

\* Lines 497-499: re.subn(<replacement pattern>, f"{attr}={value}", entry).
RECURSIVE subn_replace(_, _, _, _)
subn_replace(s, attr, value, p) ==
    LET m == FirstReplacementMatch(s, attr, p)
    IN  IF m = 0 THEN Subn(SubSeq(s, p, Len(s)), 0)
        ELSE LET rest == subn_replace(s, attr, value, ReplacementMatch(s, attr, m))
             IN  Subn(SubSeq(s, p, m - 1) \o attr \o <<"=">> \o value \o rest.out,
                      rest.n + 1)

\* Line 502: re.sub(r"\]$", f" {attr}={value}]", entry)
append_attr(s, attr, value) ==
    LET at == EndBracket(s)
    IN  IF at = 0 THEN s
        ELSE SubSeq(s, 1, at - 1) \o <<" ">> \o attr \o <<"=">> \o value \o <<"]">>
             \o SubSeq(s, at + 1, Len(s))

\* Lines 494-496: a value that is empty or holds a space is quoted, its quotes
\* escaped.
RECURSIVE escape_quotes(_)
escape_quotes(v) ==
    IF Len(v) = 0 THEN <<>>
    ELSE (IF Head(v) = QUOTE THEN <<"\\", QUOTE>> ELSE <<Head(v)>>) \o escape_quotes(Tail(v))

quoted_value(value) ==
    IF Len(value) = 0 \/ Contains(value, " ")
    THEN <<QUOTE>> \o escape_quotes(value) \o <<QUOTE>>
    ELSE value

\* A line print() writes: the warning, the attribute, the count and the keyword.
Warning(what, attr, n_subs, keyword) ==
    [what |-> what, attr |-> attr, n_subs |-> n_subs, keyword |-> keyword]

\* The entry and the warnings so far.
Edited(entry, warnings) == [entry |-> entry, warnings |-> warnings]

\* Lines 480-506: one (attr, value) item applied to the entry.
override_attr(ed, keyword, attr, value) ==
    IF value = None
    THEN LET r == subn_remove(ed.entry, attr, 1)
         IN  Edited(r.out,
                    ed.warnings \o
                    (IF r.n < 1 THEN <<Warning("not found", attr, 0, keyword)>>
                     ELSE IF r.n > 1 THEN <<Warning("removed", attr, r.n, keyword)>>
                     ELSE <<>>))
    ELSE LET v == quoted_value(value.chars)
             r == subn_replace(ed.entry, attr, v, 1)
         IN  IF r.n < 1 THEN Edited(append_attr(r.out, attr, v), ed.warnings)
             ELSE Edited(r.out,
                         ed.warnings \o
                         (IF r.n > 1 THEN <<Warning("overridden", attr, r.n, keyword)>>
                          ELSE <<>>))

\* Lines 479-506: the items of tweak.override[keyword] applied in order.
RECURSIVE override_items(_, _, _, _)
override_items(ed, keyword, items, j) ==
    IF j > Len(items) THEN ed
    ELSE override_items(override_attr(ed, keyword, items[j].k.chars, items[j].v),
                        keyword, items, j + 1)

\* tweak.override[keyword]: the value of the item with that key.
DictGet(dict, key) ==
    dict.items[CHOOSE i \in DOMAIN dict.items : dict.items[i].k = key].v

HasKey(dict, key) == \E i \in DOMAIN dict.items : dict.items[i].k = key

\* Lines 470-508: the loop body for one entry of dot.body.
override_entry(entry, override) ==
    IF entry.tag # "text" THEN Edited(entry, <<>>)
    ELSE LET keyword == keyword_of(entry.chars)
         IN  IF ~ HasKey(override, keyword) THEN Edited(entry, <<>>)
             ELSE LET ed == override_items(Edited(entry.chars, <<>>), keyword.chars,
                                           DictGet(override, keyword).items, 1)
                  IN  Edited(Text(ed.entry), ed.warnings)

\* What apply_dot_tweaks leaves behind: dot.body, the printed lines, and the
\* return value (None) or the exception.
Outcome(body, printed, result) == [body |-> body, printed |-> printed, result |-> result]

apply_dot_tweaks(body, twk) ==
    LET override_error ==
            IF twk.override # None THEN typecheck(override_checks(twk.override)) ELSE None
        edited ==
            IF twk.override # None
            THEN [i \in DOMAIN body |-> override_entry(body[i], twk.override)]
            ELSE [i \in DOMAIN body |-> Edited(body[i], <<>>)]
        body_1 == [i \in DOMAIN body |-> edited[i].entry]
        printed == Flatten([i \in DOMAIN body |-> edited[i].warnings])
        append_error ==
            IF twk.append # None THEN typecheck(append_checks(twk.append)) ELSE None
    IN  IF override_error # None THEN Outcome(body, <<>>, override_error)
        ELSE IF twk.append = None THEN Outcome(body_1, printed, Returned(None))
        ELSE IF append_error # None THEN Outcome(body_1, printed, append_error)
        ELSE IF twk.append.tag = "list"
        THEN Outcome(body_1 \o twk.append.items, printed, Returned(None))
        ELSE Outcome(body_1 \o <<twk.append>>, printed, Returned(None))


(***************************************************************************)
(* Inputs of nested_table                                                  *)
(***************************************************************************)
MaxLines == 2
MaxCells == 2

SeqsUpTo(S, n) == UNION {[1..k -> S] : k \in 0..n}

\* A table built before the call, as gv_conductor_table builds one: no id.
PrebuiltTable ==
    Table(List(<<Tr(Td(Str("&nbsp;"), NoAttribs))>>),
          [border |-> 0, cellspacing |-> 0, cellborder |-> 0])

\* The table image_and_caption_cells builds for a fixed-size image: id="!".
FlaggedTable ==
    Table(Tr(Td(Str("img"), NoAttribs)),
          [border |-> 0, cellspacing |-> 0, cellborder |-> 0, id |-> <<"!">>])

ListEntries == {None, Td(None, NoAttribs), Str("a"), PrebuiltTable}

ScalarLines ==
    {None, Str("a"), Td(None, NoAttribs), PrebuiltTable, Td(FlaggedTable, NoAttribs)}

LineValues == ScalarLines \cup {List(s) : s \in SeqsUpTo(ListEntries, MaxCells)}

(***************************************************************************)
(* Inputs of the component renderer: the harness the loading stage built   *)
(***************************************************************************)
MaxLoops == 2
MaxWires == 3
MaxShields == 2

ConnectorNames == {"X1", "X2"}
CableName == "W1"

Color(codes) == [tag |-> "Color", codes |-> codes]

Image(fixedsize, caption) ==
    [tag |-> "Image", src |-> "image.png", scale |-> "false", fixedsize |-> fixedsize,
     width |-> IF fixedsize THEN 40 ELSE 0, height |-> IF fixedsize THEN 30 ELSE 0,
     caption |-> caption, bgcolor |-> None]

\* The optional fields of a component, all unset or all set.
OptionalFields(set) ==
    IF set
    THEN [type |-> Str("D-Sub"), color |-> Str("RD"), notes |-> Str("note"),
          image |-> Image(TRUE, Str("caption")),
          pn |-> Str("PN-1"), manufacturer |-> Str("ACME"), mpn |-> Str("M-1"),
          supplier |-> None, spn |-> None]
    ELSE [type |-> None, color |-> None, notes |-> None, image |-> None,
          pn |-> None, manufacturer |-> None, mpn |-> None,
          supplier |-> None, spn |-> None]

DeclaredLoops == <<<<3, 1>>, <<1, 2>>, <<2, 3>>, <<3, 2>>>>

MakeConnector(name, ports_left, ports_right, style, bgcolor, opt, n_loops) ==
    [kind |-> "Connector", name |-> name, show_name |-> TRUE, bgcolor_title |-> None,
     bgcolor |-> bgcolor, type |-> opt.type, subtype |-> None,
     show_pincount |-> TRUE, pincount |-> 3, color |-> opt.color, notes |-> opt.notes,
     image |-> opt.image, pn |-> opt.pn, manufacturer |-> opt.manufacturer,
     mpn |-> opt.mpn, supplier |-> opt.supplier, spn |-> opt.spn,
     style |-> style, ports_left |-> ports_left, ports_right |-> ports_right,
     pins |-> <<IntV(1), IntV(2), IntV(3)>>, pinlabels |-> <<Str("GND"), Str("VCC")>>,
     pincolors |-> <<>>, hide_disconnected_pins |-> (style = "simple"),
     visible_pins |-> {IntV(1)},
     loops |-> SubSeq(DeclaredLoops, 1, n_loops)]

Pin(parent, n) ==
    [tag |-> "PinClass", parent |-> parent, index |-> n - 1, id |-> IntV(n),
     label |-> IF n = 1 THEN Str("GND") ELSE None]

ShieldIds == <<"s", "s2", "s3", "s4">>

\* The k-th wire object of a cable with n_wires wires followed by shields.
WireObject(k, n_wires, color) ==
    [cls |-> IF k <= n_wires THEN "WireClass" ELSE "ShieldClass",
     id |-> IF k <= n_wires THEN IntV(k) ELSE Str(ShieldIds[k - n_wires]),
     index |-> k - 1, color |-> color,
     label |-> IF k = 1 THEN Str("SIG") ELSE None, parent |-> CableName]

Connection(from_, via, to) == [from_ |-> from_, via |-> via, to |-> to]

MakeCable(wire_objects, connections, show_wirenumbers, bgcolor, opt) ==
    [kind |-> "Cable", name |-> CableName, show_name |-> TRUE, bgcolor_title |-> None,
     bgcolor |-> bgcolor, type |-> opt.type, show_wirecount |-> TRUE,
     wirecount |-> Len(wire_objects), gauge |-> None, gauge_str |-> None,
     shield |-> (\E k \in DOMAIN wire_objects : IsShield(wire_objects[k])),
     length |-> 0, length_unit |-> Str("m"), color |-> opt.color, notes |-> opt.notes,
     image |-> opt.image, pn |-> opt.pn, manufacturer |-> opt.manufacturer,
     mpn |-> opt.mpn, supplier |-> opt.supplier, spn |-> opt.spn,
     show_wirenumbers |-> show_wirenumbers,
     wire_objects |-> wire_objects, connections |-> connections]

MakeOptions(bgcolor_connector, bgcolor_cable) ==
    [color_mode |-> "SHORT", pad |-> TRUE,
     bgcolor_connector |-> bgcolor_connector, bgcolor_cable |-> bgcolor_cable]

OptionalColors == {None, Str("WH")}

\* The cable of the rendering runs: two wires and a shield, and connections with
\* both endpoints, with one endpoint and with none.
RenderWires ==
    << WireObject(1, 2, Color(<<"RD">>)), WireObject(2, 2, Color(<<"GN", "YE">>)),
       WireObject(3, 2, None) >>

RenderConnections ==
    << Connection(Pin("X1", 1), RenderWires[1], Pin("X2", 1)),
       Connection(Pin("X2", 2), RenderWires[2], Pin("X1", 3)),
       Connection(Pin("X1", 2), RenderWires[3], None),
       Connection(None, RenderWires[1], Pin("X2", 2)),
       Connection(None, RenderWires[2], None) >>

WireColors == {None, Color(<<"RD">>), Color(<<"GN", "YE">>)}

\* A cable of n_wires wires followed by n_shields shields; wire k runs from pin k
\* of X1, and to pin k of X2 when k is odd.
CableOf(n_wires, n_shields, colors, show_wirenumbers) ==
    LET wire_objects ==
            [k \in 1..(n_wires + n_shields) |-> WireObject(k, n_wires, colors[k])]
    IN  MakeCable(wire_objects,
                  [k \in DOMAIN wire_objects |->
                      Connection(Pin("X1", k), wire_objects[k],
                                 IF k % 2 = 1 THEN Pin("X2", k) ELSE None)],
                  show_wirenumbers, Str("WH"), OptionalFields(FALSE))

(***************************************************************************)
(* Inputs of apply_dot_tweaks: a graph description and a tweak             *)
(***************************************************************************)
MaxAttrs == 2

W_node == <<"n", "o", "d", "e">>
W_edge == <<"e", "d", "g", "e">>
W_color == <<"c", "o", "l", "o", "r">>
W_fillcolor == <<"f", "i", "l", "l">> \o W_color
W_style == <<"s", "t", "y", "l", "e">>
W_red == <<"r", "e", "d">>
W_bold == <<"b", "o", "l", "d">>
W_a_b == <<"a", " ", "b">>

\* name=value as it stands in a declaration line.
Attr(name, value) == name \o <<"=">> \o value

DeclaredAttrs ==
    { Attr(W_color, W_red),
      Attr(W_fillcolor, <<QUOTE>> \o W_a_b \o <<QUOTE>>),
      Attr(W_style, W_bold) }

RECURSIVE JoinSpaced(_)
JoinSpaced(words) ==
    IF Len(words) = 0 THEN <<>>
    ELSE IF Len(words) = 1 THEN words[1]
    ELSE words[1] \o <<" ">> \o JoinSpaced(Tail(words))

\* A declaration line as graphviz writes it: "\tkeyword [a=b c=d]\n".
Declaration(keyword, attrs) ==
    Text(<<TAB>> \o keyword \o <<" ", "[">> \o JoinSpaced(attrs) \o <<"]", NEWLINE>>)

\* The comment line set_dot_basics writes first.
CommentLine == Text(<<"/", "/", " ", "G", NEWLINE>>)

Keywords == {W_node, W_edge}

\* The graph descriptions: a comment, the declaration of a keyword and a
\* declaration of "node" with fewer attributes.
DotBodies ==
    { <<CommentLine, Declaration(k1, a1), Declaration(W_node, a2)>> :
        k1 \in Keywords,
        a1 \in SeqsUpTo(DeclaredAttrs, MaxAttrs),
        a2 \in SeqsUpTo(DeclaredAttrs, MaxAttrs - 1) }

Remove(attr) == Item(Text(attr), None)
Set(attr, value) == Item(Text(attr), Text(value))
For(keyword, items) == Item(Text(keyword), Dict(items))

WellTypedOverrides ==
    { Dict(<<For(W_node, <<Remove(W_color)>>)>>),
      Dict(<<For(W_node, <<Remove(W_color), Remove(W_fillcolor)>>)>>),
      Dict(<<For(W_node, <<Remove(W_fillcolor), Remove(W_color)>>)>>),
      Dict(<<For(W_node, <<Remove(W_style)>>), For(W_edge, <<Set(W_color, W_bold)>>)>>),
      Dict(<<For(W_edge, <<Set(W_color, <<>>), Remove(W_style)>>)>>),
      Dict(<<For(W_node, <<Remove(W_color), Set(W_style, W_a_b)>>)>>) }

MalformedOverrides ==
    { IntV(1),
      Dict(<<For(W_node, <<Remove(W_color)>>), Item(Text(W_edge), IntV(1))>>),
      Dict(<<For(W_node, <<Remove(W_color), Item(Text(W_style), IntV(1))>>)>>),
      Dict(<<Item(IntV(1), Dict(<<>>))>>) }

Appends ==
    { Text(W_bold), List(<<Text(W_red), Text(W_bold)>>),
      IntV(1), List(<<Text(W_red), IntV(1)>>) }

Tweak(override, append) == [override |-> override, append |-> append]

Tweaks ==
    { Tweak(o, None) : o \in WellTypedOverrides \cup MalformedOverrides \cup {None} }
    \cup { Tweak(Dict(<<For(W_node, <<Remove(W_color)>>)>>), a) : a \in Appends }
    \cup { Tweak(None, Text(W_bold)) }

(***************************************************************************)
(* Calls                                                                   *)
(***************************************************************************)
Call(op, target, conn) == [op |-> op, target |-> target, conn |-> conn]

NoTweak == [override |-> None, append |-> None]

CallNestedTable ==
    /\ call' = Call("nested_table", "", 0)
    /\ ret' = Returned(nested_table(lines))
    /\ UNCHANGED <<lines, connectors, cable, options, dot_body, tweak, log, rendered>>

CallNodeComponent(c) ==
    /\ call' = Call("gv_node_component", c, 0)
    /\ IF c \in ConnectorNames
       THEN /\ connectors' = [connectors EXCEPT ![c] = default_side(connectors[c])]
            /\ ret' = gv_node_component(default_side(connectors[c]), options)
            /\ rendered' = rendered \cup {c}
       ELSE /\ ret' = gv_node_component(cable, options)
            /\ UNCHANGED <<connectors, rendered>>
    /\ UNCHANGED <<lines, cable, options, dot_body, tweak, log>>

CallPinTable(c) ==
    /\ call' = Call("gv_pin_table", c, 0)
    /\ ret' = Returned(gv_pin_table(connectors[c]))
    /\ UNCHANGED <<lines, connectors, cable, options, dot_body, tweak, log, rendered>>

CallConductorTable ==
    /\ call' = Call("gv_conductor_table", CableName, 0)
    /\ ret' = Returned(gv_conductor_table(cable, options))
    /\ UNCHANGED <<lines, connectors, cable, options, dot_body, tweak, log, rendered>>

CallConnectorLoops(c) ==
    /\ call' = Call("gv_connector_loops", c, 0)
    /\ ret' = gv_connector_loops(connectors[c])
    /\ UNCHANGED <<lines, connectors, cable, options, dot_body, tweak, log, rendered>>

CallEdgeWire(k) ==
    /\ call' = Call("gv_edge_wire", CableName, k)
    /\ ret' = gv_edge_wire(connectors, options, cable.connections[k])
    /\ UNCHANGED <<lines, connectors, cable, options, dot_body, tweak, log, rendered>>

\* create_graph calls apply_dot_tweaks once, on the finished graph description.
CallApplyDotTweaks ==
    /\ ret = NoCall
    /\ call' = [op |-> "apply_dot_tweaks", target |-> "", conn |-> 0, body |-> dot_body]
    /\ LET outcome == apply_dot_tweaks(dot_body, tweak)
       IN  /\ dot_body' = outcome.body
           /\ log' = log \o outcome.printed
           /\ ret' = outcome.result
    /\ UNCHANGED <<lines, connectors, cable, options, tweak, rendered>>

(***************************************************************************)
(* Specifications                                                          *)
(***************************************************************************)
\* The state shared by the initial conditions: nothing has been called.
Idle ==
    /\ call = Call("", "", 0)
    /\ ret = NoCall
    /\ log = <<>>
    /\ rendered = {}

FixedHarness ==
    /\ connectors = [c \in ConnectorNames |->
                        MakeConnector(c, TRUE, TRUE, "", None, OptionalFields(FALSE), 1)]
    /\ options = MakeOptions(Str("WH"), Str("WH"))

\* nested_table and apply_dot_tweaks take no component: no harness is loaded.
NoHarness == connectors = <<>> /\ options = None /\ cable = None

NoDot == dot_body = <<>> /\ tweak = NoTweak

\* The table builder on its own.
InitTable ==
    /\ lines \in SeqsUpTo(LineValues, MaxLines)
    /\ NoHarness /\ NoDot /\ Idle

NextTable == CallNestedTable

SpecTable == InitTable /\ [][NextTable]_vars

\* Rendering a harness of two connectors and a cable.
InitRender ==
    /\ lines = <<>>
    /\ \E l1 \in BOOLEAN, r1 \in BOOLEAN, s1 \in {"", "simple"}, b1 \in OptionalColors,
          n1 \in 0..MaxLoops, r2 \in BOOLEAN, s2 \in {"", "simple"} :
          connectors = [c \in ConnectorNames |->
              IF c = "X1" THEN MakeConnector(c, l1, r1, s1, b1, OptionalFields(FALSE), n1)
              ELSE MakeConnector(c, FALSE, r2, s2, None, OptionalFields(TRUE), 1)]
    /\ \E b \in OptionalColors : options = MakeOptions(b, b)
    /\ \E o \in BOOLEAN :
          cable = MakeCable(RenderWires, RenderConnections, TRUE,
                            IF o THEN Str("WH") ELSE None, OptionalFields(o))
    /\ NoDot /\ Idle

NextRender ==
    \/ \E c \in ConnectorNames \cup {CableName} : CallNodeComponent(c)
    \/ \E c \in ConnectorNames : CallPinTable(c)
    \/ CallConductorTable
    \/ \E c \in ConnectorNames : CallConnectorLoops(c)
    \/ \E k \in DOMAIN cable.connections : CallEdgeWire(k)

SpecRender == InitRender /\ [][NextRender]_vars

\* The conductor table of cables of every size.
InitCable ==
    /\ lines = <<>>
    /\ FixedHarness
    /\ \E w \in 0..MaxWires, s \in 0..MaxShields, n \in BOOLEAN :
         \E colors \in [1..(w + s) -> WireColors] :
            cable = CableOf(w, s, colors, n)
    /\ NoDot /\ Idle

NextCable == CallConductorTable

SpecCable == InitCable /\ [][NextCable]_vars

\* The tweaks applied to a graph description.
InitTweak ==
    /\ lines = <<>>
    /\ NoHarness
    /\ dot_body \in DotBodies
    /\ tweak \in Tweaks
    /\ Idle

NextTweak == CallApplyDotTweaks

SpecTweak == InitTweak /\ [][NextTweak]_vars

(***************************************************************************)
(* Claims about the table builder (checked under SpecTable)                *)
(***************************************************************************)
\* An entry of a line seen as a cell, and the cells of a line that are not None.
EntryCell(e) == IF e.tag = "Td" THEN e ELSE Td(e, NoAttribs)

NonNullEntry(e) == EntryCell(e).contents # None

LineCells(line) ==
    IF line.tag = "list"
    THEN LET kept == SelectSeq(line.items, NonNullEntry)
         IN  [k \in DOMAIN kept |-> EntryCell(kept[k])]
    ELSE IF NonNullEntry(line) THEN <<EntryCell(line)>> ELSE <<>>

HasNonNullCell(line) == Len(LineCells(line)) > 0

\* The row of the result that belongs to line i: lines without cells have none.
RowIndex(i) == Len(SelectSeq(SubSeq(lines, 1, i), HasNonNullCell))

\* The table in the single cell of a row.
InnerOf(row) == Children(row)[1].contents

Wrapped(cells) == Table(Tr(List(cells)), InnerTableAttribs)

IsWrapper(tbl) == tbl.attribs = InnerTableAttribs /\ tbl.contents.tag = "Tr"

\* What a row shows: the contents of the wrapped cells, or the embedded table.
RowEntries(row) ==
    IF IsWrapper(InnerOf(row))
    THEN LET cells == Children(InnerOf(row).contents)
         IN  [k \in DOMAIN cells |-> cells[k].contents]
    ELSE <<InnerOf(row)>>

LineEntries(line) == [k \in DOMAIN LineCells(line) |-> LineCells(line)[k].contents]

IsNoneLine(line) ==
    \/ line = None
    \/ line.tag = "Td" /\ line.contents = None
    \/ /\ line.tag = "list"
       /\ \A k \in DOMAIN line.items :
            \/ line.items[k] = None
            \/ line.items[k].tag = "Td" /\ line.items[k].contents = None

UnflaggedTable(v) ==
    v.tag = "Table" /\ ~ Contains(AttribGet(v.attribs, "id", <<>>), "!")

\* C1: when every line is None, an empty list, or a list of None entries or of
\* cells whose contents are None, nested_table returns a table with exactly one
\* row, and that row has exactly one cell, whose contents are empty.
C1_PlaceholderRow ==
    (ret.tag = "return" /\ \A i \in DOMAIN lines : IsNoneLine(lines[i])) =>
        /\ Len(Children(ret.val)) = 1
        /\ Children(ret.val)[1].tag = "Tr"
        /\ Len(Children(Children(ret.val)[1])) = 1
        /\ Children(Children(ret.val)[1])[1].tag = "Td"
        /\ Children(Children(ret.val)[1])[1].contents = Str("")

C1_Witness ==
    /\ ret.tag = "return"
    /\ lines = <<List(<<None, Td(None, NoAttribs)>>), None>>

\* C2: when some line has a non-null cell, the rows of the result are, in input
\* order, exactly the lines that have a non-null cell: one row per such line,
\* showing that line's non-null entries, and no row for any other line.
C2_RowsFollowLines ==
    (ret.tag = "return" /\ \E i \in DOMAIN lines : HasNonNullCell(lines[i])) =>
        LET kept == SelectSeq(lines, HasNonNullCell)
            rows == Children(ret.val)
        IN  /\ Len(rows) = Len(kept)
            /\ \A j \in DOMAIN rows :
                 /\ rows[j].tag = "Tr"
                 /\ Len(Children(rows[j])) = 1
                 /\ RowEntries(rows[j]) = LineEntries(kept[j])

C2_Witness ==
    /\ ret.tag = "return"
    /\ lines = <<List(<<None>>), List(<<PrebuiltTable, Str("a")>>)>>
    /\ Len(Children(ret.val)) = 1

\* C3 as claimed: every list-valued line with a non-null entry is rendered as a
\* row whose cell holds an inner single-row table of the list's non-null entries;
\* a line that is a table is embedded directly, unless its id holds "!", and then
\* it is wrapped in an inner table.
C3_AsClaimed ==
    ret.tag = "return" =>
        \A i \in DOMAIN lines :
            HasNonNullCell(lines[i]) =>
                LET inner == InnerOf(Children(ret.val)[RowIndex(i)])
                    cells == LineCells(lines[i])
                IN  /\ lines[i].tag = "list" => inner = Wrapped(cells)
                    /\ (lines[i].tag # "list" /\ cells[1].contents.tag = "Table") =>
                          inner = IF UnflaggedTable(cells[1].contents)
                                  THEN cells[1].contents
                                  ELSE Wrapped(cells)

\* C3 as amended: a list-valued line with a non-null entry is rendered as an inner
\* single-row table of its non-null entries in input order, except that a list
\* whose only non-null entry is a table without "!" in its id is embedded directly,
\* as a line that is such a table is; a table whose id holds "!" is wrapped.
C3_RowContent ==
    ret.tag = "return" =>
        \A i \in DOMAIN lines :
            HasNonNullCell(lines[i]) =>
                LET inner == InnerOf(Children(ret.val)[RowIndex(i)])
                    cells == LineCells(lines[i])
                    sole  == Len(cells) = 1 /\ UnflaggedTable(cells[1].contents)
                IN  /\ (lines[i].tag = "list" /\ ~ sole) => inner = Wrapped(cells)
                    /\ (lines[i].tag = "list" /\ sole) => inner = cells[1].contents
                    /\ (lines[i].tag # "list" /\ cells[1].contents.tag = "Table") =>
                          inner = IF sole THEN cells[1].contents ELSE Wrapped(cells)

C3_Witness ==
    /\ ret.tag = "return"
    /\ lines = <<List(<<None, PrebuiltTable>>), Td(FlaggedTable, NoAttribs)>>
    /\ InnerOf(Children(ret.val)[1]) = PrebuiltTable
    /\ InnerOf(Children(ret.val)[2]) = Wrapped(<<Td(FlaggedTable, NoAttribs)>>)

(***************************************************************************)
(* Claims about the component renderer (SpecRender, SpecCable)             *)
(***************************************************************************)
\* C4 as claimed: gv_node_component raises no error, whatever optional fields of
\* the component and whatever background colors of the options are unset: it
\* returns a table.
C4_NeverFails ==
    call.op = "gv_node_component" => ret.tag = "return"

\* The connection a gv_edge_wire call was given.
CalledConnection == cable.connections[call.conn]

HasPinPort(path) == path.port.kind = "p"

\* C5 as claimed: the left connector path holds the pin port ":p<from.index+1>r"
\* exactly when the left endpoint's connector is not "simple", the right connector
\* path holds ":p<to.index+1>l" exactly when the right endpoint's connector is not
\* "simple", and both cable paths name the wire port "w<via.index+1>".
C5_PortPaths ==
    (call.op = "gv_edge_wire" /\ ret.tag = "return") =>
        LET conn == CalledConnection
            wire_port == WirePort(conn.via.index + 1)
        IN  /\ conn.from_ # None =>
                /\ ret.val.code_left_1.port =
                      IF connectors[conn.from_.parent].style # "simple"
                      THEN PinPort(conn.from_.index + 1, "r") ELSE NoPort
                /\ ret.val.code_left_2.port = wire_port
            /\ conn.to # None =>
                /\ ret.val.code_right_2.port =
                      IF connectors[conn.to.parent].style # "simple"
                      THEN PinPort(conn.to.index + 1, "l") ELSE NoPort
                /\ ret.val.code_right_1.port = wire_port

\* C10 as claimed: with the left endpoint absent and the right one present,
\* gv_edge_wire returns None for both left paths and both right paths; with the
\* right endpoint absent and the left one present, it returns both left paths and
\* None for both right paths.
C10_AbsentEndpoint ==
    call.op = "gv_edge_wire" =>
        LET conn == CalledConnection
        IN  /\ (conn.from_ = None /\ conn.to # None) =>
                /\ ret.tag = "return"
                /\ ret.val.code_left_1 = None /\ ret.val.code_left_2 = None
                /\ ret.val.code_right_1 # None /\ ret.val.code_right_2 # None
            /\ (conn.from_ # None /\ conn.to = None) =>
                /\ ret.tag = "return"
                /\ ret.val.code_left_1 # None /\ ret.val.code_left_2 # None
                /\ ret.val.code_right_1 = None /\ ret.val.code_right_2 = None

NumWires == Cardinality({k \in DOMAIN cable.wire_objects : ~ IsShield(cable.wire_objects[k])})
NumShields == Cardinality({k \in DOMAIN cable.wire_objects : IsShield(cable.wire_objects[k])})

IsInfoRowOf(row, wire) ==
    /\ row.tag = "Tr" /\ row.contents.tag = "list" /\ Len(row.contents.items) = 3
    /\ row.contents.items[1].contents =
          Join(", ", <<endpoint_str(Pin("X1", wire.index + 1))>>)

IsWireRowOf(row, wire) ==
    /\ row.tag = "Tr" /\ row.contents.tag = "Td"
    /\ row.contents.attribs.port = WirePort(wire.index + 1)

\* C6: for a cable of W wires followed by S shields the conductor table has
\* 1 + 2*W + (1 if S > 0) + 2*S + 1 rows: a spacer first and last, for each wire
\* and shield in wire_objects order an info row directly followed by its wire row,
\* and one more spacer, directly before the info row of the first shield only.
C6_ConductorRows ==
    (call.op = "gv_conductor_table" /\ ret.tag = "return") =>
        LET rows == Children(ret.val)
            W == NumWires
            S == NumShields
            gap == IF S > 0 THEN 1 ELSE 0
            \* the place of the info row of the k-th wire object
            At(k) == IF k <= W THEN 2 * k ELSE 2 * k + gap
        IN  /\ Len(rows) = 1 + 2 * W + gap + 2 * S + 1
            /\ rows[1] = Spacer
            /\ rows[Len(rows)] = Spacer
            /\ S > 0 => rows[2 * W + 2] = Spacer
            /\ \A k \in DOMAIN cable.wire_objects :
                 /\ IsInfoRowOf(rows[At(k)], cable.wire_objects[k])
                 /\ IsWireRowOf(rows[At(k) + 1], cable.wire_objects[k])
            /\ Cardinality({j \in DOMAIN rows : rows[j] = Spacer}) = 2 + gap

C6_Witness ==
    /\ call.op = "gv_conductor_table" /\ ret.tag = "return"
    /\ NumWires = 3 /\ NumShields = 2
    /\ Len(Children(ret.val)) = 13

\* C7: gv_connector_loops raises a configuration error for a connector with
\* neither side and a declared loop; for a connector with a side it returns one
\* edge per loop, in loop order, from the port of the loop's first pin to the port
\* of its second, both on the left (direction w) when ports_left is set and
\* otherwise both on the right (direction e).
C7_Loops ==
    call.op = "gv_connector_loops" =>
        LET connector == connectors[call.target]
            side == IF connector.ports_left THEN "l" ELSE "r"
            dir == IF connector.ports_left THEN "w" ELSE "e"
        IN  /\ (~ connector.ports_left /\ ~ connector.ports_right
                   /\ Len(connector.loops) > 0) => ret.tag = "raise"
            /\ (connector.ports_left \/ connector.ports_right) =>
                /\ ret.tag = "return"
                /\ Len(ret.val.items) = Len(connector.loops)
                /\ \A k \in DOMAIN connector.loops :
                     /\ ret.val.items[k][1] =
                           Path(connector.name, PinPort(connector.loops[k][1], side), dir)
                     /\ ret.val.items[k][2] =
                           Path(connector.name, PinPort(connector.loops[k][2], side), dir)

C7_Witness ==
    /\ call.op = "gv_connector_loops" /\ call.target = "X1"
    /\ connectors["X1"].ports_left /\ connectors["X1"].ports_right
    /\ ret.tag = "return" /\ Len(ret.val.items) = 2
    /\ ret.val.items[1][1].port = PinPort(3, "l")

ExposesSide(c) == connectors[c].ports_left \/ connectors[c].ports_right

\* What a step may change: nothing of the cable and the options, and of a
\* connector only ports_left, set by gv_node_component on that connector exactly
\* when it had neither side; a repeated gv_node_component call changes nothing.
C8_Step ==
    /\ cable' = cable
    /\ options' = options
    /\ \A c \in ConnectorNames :
         connectors'[c] =
            IF /\ call'.op = "gv_node_component" /\ call'.target = c
               /\ ~ connectors[c].ports_left /\ ~ connectors[c].ports_right
            THEN [connectors[c] EXCEPT !.ports_left = TRUE]
            ELSE connectors[c]
    /\ (call'.op = "gv_node_component" /\ call'.target \in rendered) =>
          connectors' = connectors

\* Once gv_node_component has been called on a connector it has a side, and
\* gv_connector_loops on it does not raise.
C8_Rendered ==
    \A c \in rendered :
        /\ ExposesSide(c)
        /\ (call.op = "gv_connector_loops" /\ call.target = c) => ret.tag = "return"

\* C8: rendering changes no attribute of any component or of the options, except
\* that gv_node_component sets ports_left on a connector exactly when it had
\* neither side; after the first gv_node_component call the connector has a side,
\* a repeated call changes nothing and gv_connector_loops does not raise.
C8_OnlyDefaultSide == [] C8_Rendered /\ [][C8_Step]_vars

C8_Witness ==
    /\ "X2" \in rendered
    /\ connectors["X2"].ports_left /\ ~ connectors["X2"].ports_right
    /\ call.op = "gv_connector_loops" /\ call.target = "X2"
    /\ ret.tag = "return" /\ Len(ret.val.items) = 1

(***************************************************************************)
(* Claims about apply_dot_tweaks (SpecTweak)                               *)
(***************************************************************************)
\* The number of places where `lit` stands in the text.
CountOf(s, lit) == Cardinality({p \in 1..Len(s) : LitAt(s, p, lit)})

\* The text declares the attribute: name= after a space or the opening bracket.
HasAttribute(s, attr) ==
    \E p \in 2..Len(s) : LitAt(s, p, attr \o <<"=">>) /\ s[p - 1] \in {" ", "["}

\* The entry is the declaration line of the keyword.
Declares(entry, keyword) ==
    entry.tag = "text" /\ LitAt(entry.chars, 1, <<TAB>> \o keyword \o <<" ", "[">>)

\* The keyword whose overrides apply to entry i of the description given to the
\* call, and those overrides; <<>> when none apply.
OverriddenKeyword(i) ==
    CHOOSE k \in Keywords : Declares(call.body[i], k)

Overrides(i) ==
    IF /\ \E k \in Keywords : Declares(call.body[i], k)
       /\ HasKey(tweak.override, Text(OverriddenKeyword(i)))
    THEN DictGet(tweak.override, Text(OverriddenKeyword(i))).items
    ELSE <<>>

\* Entry i when its j-th override is applied: the earlier ones have been.
TextBefore(i, j) ==
    override_items(Edited(call.body[i].chars, <<>>), OverriddenKeyword(i),
                   SubSeq(Overrides(i), 1, j - 1), 1).entry

\* The warnings entry i calls for: per override, from the number of places the
\* attribute stands in the entry.
ExpectedWarnings(i) ==
    Flatten([j \in DOMAIN Overrides(i) |->
        LET attr == Overrides(i)[j].k.chars
            n == CountOf(TextBefore(i, j), attr \o <<"=">>)
        IN  IF Overrides(i)[j].v = None
            THEN IF n = 0 THEN <<Warning("not found", attr, 0, OverriddenKeyword(i))>>
                 ELSE IF n > 1 THEN <<Warning("removed", attr, n, OverriddenKeyword(i))>>
                 ELSE <<>>
            ELSE IF n > 1 THEN <<Warning("overridden", attr, n, OverriddenKeyword(i))>>
                 ELSE <<>>])

AppendWellTyped ==
    \/ tweak.append = None
    \/ tweak.append.tag = "text"
    \/ tweak.append.tag = "list"
       /\ \A k \in DOMAIN tweak.append.items : tweak.append.items[k].tag = "text"

Removes(keyword, attr) ==
    /\ tweak.override.tag = "dict"
    /\ HasKey(tweak.override, Text(keyword))
    /\ \E j \in DOMAIN DictGet(tweak.override, Text(keyword)).items :
          DictGet(tweak.override, Text(keyword)).items[j] = Remove(attr)

NamesOffender(exc) ==
    /\ ~ IsInstance(exc.value, exc.expected)
    /\ LET f == exc.name.f
           a == exc.name.args
           entries(k) == {i \in DOMAIN tweak.override.items : tweak.override.items[i].k = k}
       IN  CASE f = "tweak.override" -> exc.value = tweak.override
             [] f = "tweak.override.{k} key" ->
                    exc.value = a[1] /\ entries(a[1]) # {}
             [] f = "tweak.override.{k} value" ->
                    \E i \in entries(a[1]) : exc.value = tweak.override.items[i].v
             [] f = "tweak.override.{k}.{a} key" ->
                    /\ exc.value = a[2]
                    /\ \E i \in entries(a[1]) :
                          \E j \in DOMAIN tweak.override.items[i].v.items :
                              tweak.override.items[i].v.items[j].k = a[2]
             [] f = "tweak.override.{k}.{a} value" ->
                    \E i \in entries(a[1]) :
                        \E j \in DOMAIN tweak.override.items[i].v.items :
                            tweak.override.items[i].v.items[j] = Item(a[2], exc.value)
             [] f = "tweak.append[{i}]" ->
                    /\ tweak.append.tag = "list"
                    /\ a[1].n \in DOMAIN tweak.append.items
                    /\ exc.value = tweak.append.items[a[1].n]
             [] f = "tweak.append" -> exc.value = tweak.append
             [] OTHER -> FALSE

\* C11: whenever apply_dot_tweaks raises because a value of tweak.override or of
\* tweak.append has the wrong type, the exception names the offending key and
\* dot.body is exactly as it was before the call: no override has been applied
\* to any entry and nothing has been appended.
C11_AllOrNothing ==
    (call.op = "apply_dot_tweaks" /\ ret.tag = "raise") =>
        /\ NamesOffender(ret.exc)
        /\ dot_body = call.body

====
